---- MODULE Spec2Model ----
(***************************************************************************)
(* LED lighting controller for two PWM channels (cold white, warm white)   *)
(* on an ATtiny85, driven by NEC infrared commands (src/src/main.cpp).     *)
(* int is 16 bits wide on this target; uint16_t arithmetic wraps mod 2^16. *)
(***************************************************************************)
EXTENDS Integers, Sequences, FiniteSets, TLC

VARIABLES
    whiteColor,      \* struct PWMdata whiteColor
    brightness,      \* uint8_t brightness
    current_preset,  \* uint8_t current_preset
    is_on,           \* bool is_on
    is_night,        \* bool is_night
    eeprom,          \* EEPROM cells 0 (cold white) and 1 (warm white)
    irmp_data,       \* IRMP_DATA irmp_data, the frame last delivered by the decoder
    OCR1A,           \* Timer1 compare register, duty cycle of PB1
    OCR1B,           \* Timer1 compare register, duty cycle of PB4
    pc,              \* control position: "setup", "loop", "fade", "trapped", "scale"
    newColor,        \* local newColor of processNECCommand
    fade,            \* locals of the running fadePWM call
    scaleArg,        \* arguments of the most recent setBrightness call
    scaleRes,        \* outcomes of the setBrightness call(s) on scaleArg
    sent,            \* argument of the most recent setPWM call
    emitted,         \* arguments of the setPWM calls of the current command, in order
    pre,             \* globals, EEPROM and output as they were when the command arrived
    ncmd             \* number of frames delivered so far

vars == <<whiteColor, brightness, current_preset, is_on, is_night, eeprom,
          irmp_data, OCR1A, OCR1B, pc, newColor, fade, scaleArg, scaleRes,
          sent, emitted, pre, ncmd>>

\* Number of infrared frames the decoder delivers in a run.
MaxCmds == 3

----------------------------------------------------------------------------
\* Data

PWMdata(c, w) == [coldWhite |-> c, warmWhite |-> w]

presets == <<PWMdata(255, 1), PWMdata(255, 128), PWMdata(255, 255),
             PWMdata(128, 255), PWMdata(1, 255)>>

\* presets[k] with the source's 0-based index
Preset(k) == presets[k + 1]

increment == 4

scaleFactor == 100

steps == 50

\* the clamp with 0 as its lower limit
constrain_FromZero(x) == IF x < 0 THEN 0 ELSE IF x > 255 THEN 255 ELSE x

\* constrain(x, 1, 255) followed by the uint8_t cast
constrain(x) == IF x < 1 THEN 1 ELSE IF x > 255 THEN 255 ELSE x

U16(x) == x % 65536

U8(x) == x % 256

\* C++ integer division, truncating toward zero (divisor > 0)
TruncDiv(a, b) == IF a >= 0 THEN a \div b ELSE -((-a) \div b)

Max(a, b) == IF a > b THEN a ELSE b

----------------------------------------------------------------------------
\* setBrightness

\* Quotients a division by zero may leave in a uint16_t (the operation is
\* undefined; the call may also not return at all, see Trap).
DivByZeroQuot == {0, 65535}

DivOutcomes(a, d) == IF d = 0 THEN DivByZeroQuot ELSE {a \div d}

Returned(v) == [returns |-> TRUE, value |-> v]

Trap == [returns |-> FALSE, value |-> PWMdata(0, 0)]

ColdDominant(white) == white.coldWhite >= white.warmWhite

Dominant(white) == IF ColdDominant(white) THEN white.coldWhite ELSE white.warmWhite

Recessive(white) == IF ColdDominant(white) THEN white.warmWhite ELSE white.coldWhite

\* dividend of temp, before the uint16_t wrap
TempDividend(white) == Dominant(white) * scaleFactor + ((Recessive(white) * 9) \div 10)

\* the dividend without the 9/10 rounding term
ScaledDividend_Truncating(b, temp) == U16(b * scaleFactor)

\* dividend of the recessive channel for a given temp, as uint16_t computes it
ScaledDividend(b, temp) == U16(U16(b * scaleFactor) + (U16(temp * 9) \div 10))

\* the scaled value stored in the wrong channel
ScaledPair_Swapped(b, white, x) ==
    IF ColdDominant(white)
    THEN PWMdata(constrain(x), constrain(b))
    ELSE PWMdata(constrain(b), constrain(x))

ScaledPair(b, white, x) ==
    IF ColdDominant(white)
    THEN PWMdata(constrain(b), constrain(x))
    ELSE PWMdata(constrain(x), constrain(b))

\* Every outcome of setBrightness(b, white).
setBrightnessOutcomes(b, white) ==
    LET temps  == DivOutcomes(U16(TempDividend(white)), Recessive(white))
        finals == UNION {DivOutcomes(ScaledDividend(b, t), t) : t \in temps}
    IN  {Returned(ScaledPair(b, white, x)) : x \in finals}
        \cup (IF Recessive(white) = 0 \/ 0 \in temps THEN {Trap} ELSE {})

\* setBrightness(b, white) where no divisor is zero
setBrightness(b, white) ==
    LET temp == U16(TempDividend(white)) \div Recessive(white)
    IN  ScaledPair(b, white, ScaledDividend(b, temp) \div temp)

\* temp of a call with a non-zero recessive channel
TempOf(white) == U16(TempDividend(white)) \div Recessive(white)

\* Largest intermediate value of setBrightness(b, white) before any wrap.
MaxIntermediate(b, white) ==
    LET t == TempOf(white)
    IN  Max(Max(TempDividend(white), t * 9),
            Max(b * scaleFactor, U16(b * scaleFactor) + (U16(t * 9) \div 10)))

----------------------------------------------------------------------------
\* setPWM, readColor, getBrightness

OCRof(v) == IF v = 1 THEN 0 ELSE v

\* setPWM(white), appended to the log of the current command
setPWM(white, log) ==
    /\ OCR1A' = OCRof(white.coldWhite)
    /\ OCR1B' = OCRof(white.warmWhite)
    /\ sent' = white
    /\ emitted' = Append(log, white)

NoOutput == UNCHANGED <<OCR1A, OCR1B, sent>>

readColor == PWMdata(eeprom.coldWhite, eeprom.warmWhite)

\* the comparison made against the warm channel held before the load
getBrightness_Stale(color, wc) ==
    IF color.coldWhite > whiteColor.warmWhite THEN color.coldWhite ELSE color.warmWhite

\* getBrightness(color); wc is the global whiteColor at the time of the call
getBrightness(color, wc) ==
    IF color.coldWhite > wc.warmWhite THEN color.coldWhite ELSE color.warmWhite

\* the step without the saturation test
brighter_Wrapping(b) == U8(b + increment)

brighter(b) == IF b < 255 - increment THEN U8(b + increment) ELSE 255

darker(b) == IF b >= increment THEN U8(b - increment) ELSE 0

----------------------------------------------------------------------------
\* fadePWM

ToInt16(x) == ((x + 32768) % 65536) - 32768

\* the step rounded to nearest instead of truncated
stepOf_Rounded(from, to) == TruncDiv(to - from + (steps \div 2), steps)

stepOf(from, to) == TruncDiv(to - from, steps)

\* locals of fadePWM(start, stop) on entry
fadeEntry(start, stop) ==
    [start |-> start, stop |-> stop,
     stepCold |-> stepOf(start.coldWhite, stop.coldWhite),
     stepWarm |-> stepOf(start.warmWhite, stop.warmWhite),
     currentCold |-> start.coldWhite,
     currentWarm |-> start.warmWhite,
     i |-> 0]

\* call fadePWM(start, stop): the loop runs in FadeStep, the return in FadeFinish
fadePWM(start, stop) ==
    /\ fade' = fadeEntry(start, stop)
    /\ pc' = "fade"
    /\ emitted' = <<>>
    /\ NoOutput

\* an iteration that adds the step before it sets the output
FadeStep_StepFirst ==
    /\ pc = "fade"
    /\ fade.i <= steps
    /\ setPWM(PWMdata(constrain(ToInt16(fade.currentCold + fade.stepCold)),
                      constrain(ToInt16(fade.currentWarm + fade.stepWarm))), emitted)
    /\ fade' = [fade EXCEPT !.currentCold = ToInt16(fade.currentCold + fade.stepCold),
                            !.currentWarm = ToInt16(fade.currentWarm + fade.stepWarm),
                            !.i = fade.i + 1]
    /\ UNCHANGED <<whiteColor, brightness, current_preset, is_on, is_night, eeprom,
                   irmp_data, pc, newColor, scaleArg, scaleRes, pre, ncmd>>

\* one iteration of the for loop
FadeStep ==
    /\ pc = "fade"
    /\ fade.i <= steps
    /\ setPWM(PWMdata(constrain(fade.currentCold), constrain(fade.currentWarm)), emitted)
    /\ fade' = [fade EXCEPT !.currentCold = ToInt16(fade.currentCold + fade.stepCold),
                            !.currentWarm = ToInt16(fade.currentWarm + fade.stepWarm),
                            !.i = fade.i + 1]
    /\ UNCHANGED <<whiteColor, brightness, current_preset, is_on, is_night, eeprom,
                   irmp_data, pc, newColor, scaleArg, scaleRes, pre, ncmd>>

\* the assignment present after the preset fade only
AssignsAfterFade_PresetOnly(command) == command = 71

\* commands that assign whiteColor = newColor after their fade
AssignsAfterFade(command) == command \in {71, 12, 24, 94}

\* the final value clamped like the step values
FadeFinish_Clamped ==
    /\ pc = "fade"
    /\ fade.i > steps
    /\ setPWM(PWMdata(constrain(fade.stop.coldWhite), constrain(fade.stop.warmWhite)),
              emitted)
    /\ whiteColor' = IF AssignsAfterFade(irmp_data.command) THEN newColor ELSE whiteColor
    /\ pc' = "loop"
    /\ UNCHANGED <<brightness, current_preset, is_on, is_night, eeprom,
                   irmp_data, newColor, fade, scaleArg, scaleRes, pre, ncmd>>

\* loop exit, setPWM(stop), return to the caller and the caller's remaining statements
FadeFinish ==
    /\ pc = "fade"
    /\ fade.i > steps
    /\ setPWM(fade.stop, emitted)
    /\ whiteColor' = IF AssignsAfterFade(irmp_data.command) THEN newColor ELSE whiteColor
    /\ pc' = "loop"
    /\ UNCHANGED <<brightness, current_preset, is_on, is_night, eeprom,
                   irmp_data, newColor, fade, scaleArg, scaleRes, pre, ncmd>>

----------------------------------------------------------------------------
\* processNECCommand

Snapshot ==
    [whiteColor |-> whiteColor, brightness |-> brightness,
     current_preset |-> current_preset, is_on |-> is_on, is_night |-> is_night,
     eeprom |-> eeprom, sent |-> sent]

\* record a setBrightness call and its outcome
Scaled(b, white, r) ==
    /\ scaleArg' = [brightness |-> b, white |-> white]
    /\ scaleRes' = <<r>>

\* the call did not return: the controller stops
Trapped ==
    /\ pc' = "trapped"
    /\ emitted' = <<>>
    /\ NoOutput

NightColor == Preset(4)

\* the fade direction chosen from the old value of is_on
Case69_Inverted(command) ==
    /\ command = 69
    /\ is_on' = ~is_on
    /\ IF is_on
       THEN fadePWM(PWMdata(0, 0), whiteColor)
       ELSE fadePWM(whiteColor, PWMdata(0, 0))
    /\ UNCHANGED <<whiteColor, brightness, current_preset, is_night, eeprom,
                   newColor, scaleArg, scaleRes>>

\* case 69: On-Off toggle
Case69(command) ==
    /\ command = 69
    /\ is_on' = ~is_on
    /\ IF is_on'
       THEN fadePWM(PWMdata(0, 0), whiteColor)
       ELSE fadePWM(whiteColor, PWMdata(0, 0))
    /\ UNCHANGED <<whiteColor, brightness, current_preset, is_night, eeprom,
                   newColor, scaleArg, scaleRes>>

\* the preset count off by one
nextPreset_Mod4(p) == (p + 1) % 4

nextPreset(p) == (p + 1) % 5

\* case 71: select presettings 0..4
Case71(command) ==
    /\ command = 71
    /\ current_preset' = nextPreset(current_preset)
    /\ \E r \in setBrightnessOutcomes(brightness, Preset(current_preset')) :
          /\ Scaled(brightness, Preset(current_preset'), r)
          /\ IF r.returns
             THEN newColor' = r.value /\ fadePWM(whiteColor, r.value)
             ELSE Trapped /\ UNCHANGED <<newColor, fade>>
    /\ UNCHANGED <<whiteColor, brightness, is_on, is_night, eeprom>>

\* cases 9 and 7 after the new brightness b is computed
Rescale(b) ==
    /\ brightness' = b
    /\ \E r \in setBrightnessOutcomes(b, whiteColor) :
          /\ Scaled(b, whiteColor, r)
          /\ IF r.returns
             THEN whiteColor' = r.value /\ setPWM(r.value, <<>>) /\ pc' = "loop"
             ELSE Trapped /\ UNCHANGED whiteColor
    /\ UNCHANGED <<current_preset, is_on, is_night, eeprom, newColor, fade>>

\* case 9: brighter
Case9(command) ==
    /\ command = 9
    /\ Rescale(brighter(brightness))

\* case 7: darker
Case7(command) ==
    /\ command = 7
    /\ Rescale(darker(brightness))

\* the channel that is raised by a colour shift
\* the raised channel without the saturation test
shiftUp_Wrapping(v) == U8(v + increment)

shiftUp(v) == IF v < 255 - increment THEN U8(v + increment) ELSE 255

\* the lowered channel without the == 0 correction
shiftDown_NoFloor(v) == IF v >= increment THEN U8(v - increment) ELSE 0

\* the channel that is lowered by a colour shift, with the == 0 correction
shiftDown(v) ==
    LET d == IF v >= increment THEN U8(v - increment) ELSE 0
    IN  IF d = 0 THEN 1 ELSE d

\* the == 0 correction applied to the raised channel
nonZero(v) == IF v = 0 THEN 1 ELSE v

\* cases 25 and 64 after the shifted colour is computed
Shifted(color) ==
    /\ whiteColor' = color
    /\ brightness' = IF color.coldWhite > color.warmWhite
                     THEN color.coldWhite ELSE color.warmWhite
    /\ setPWM(color, <<>>)
    /\ pc' = "loop"
    /\ UNCHANGED <<current_preset, is_on, is_night, eeprom, newColor, fade,
                   scaleArg, scaleRes>>

\* case 25: colder white
Case25(command) ==
    /\ command = 25
    /\ Shifted(PWMdata(nonZero(shiftUp(whiteColor.coldWhite)),
                       shiftDown(whiteColor.warmWhite)))

\* case 64: warmer white
Case64(command) ==
    /\ command = 64
    /\ Shifted(PWMdata(shiftDown(whiteColor.coldWhite),
                       nonZero(shiftUp(whiteColor.warmWhite))))

\* case 8: nightlight
Case8(command) ==
    /\ command = 8
    /\ is_night' = ~is_night
    /\ \E r \in setBrightnessOutcomes(5, NightColor) :
          /\ Scaled(5, NightColor, r)
          /\ IF is_night'
             THEN /\ UNCHANGED <<whiteColor, brightness>>
                  /\ IF r.returns THEN fadePWM(whiteColor, r.value)
                                  ELSE Trapped /\ UNCHANGED fade
             ELSE /\ whiteColor' = readColor
                  /\ brightness' = getBrightness(whiteColor', whiteColor')
                  /\ IF r.returns THEN fadePWM(r.value, whiteColor')
                                  ELSE Trapped /\ UNCHANGED fade
    /\ UNCHANGED <<current_preset, is_on, eeprom, newColor>>

\* target brightness of the fixed-level commands
Level(command) == IF command = 12 THEN 25 ELSE IF command = 24 THEN 128 ELSE 255

\* cases 12, 24 and 94: 10%, 50%, 100%
CaseLevel(command) ==
    /\ command \in {12, 24, 94}
    /\ \E r \in setBrightnessOutcomes(Level(command), whiteColor) :
          /\ Scaled(Level(command), whiteColor, r)
          /\ IF r.returns
             THEN newColor' = r.value /\ fadePWM(whiteColor, r.value)
             ELSE Trapped /\ UNCHANGED <<newColor, fade>>
    /\ UNCHANGED <<whiteColor, brightness, current_preset, is_on, is_night, eeprom>>

\* the value on the output stored instead of whiteColor
Case28_StoresOutput(command) ==
    /\ command = 28
    /\ eeprom' = PWMdata(sent.coldWhite, sent.warmWhite)
    /\ setPWM(whiteColor, <<PWMdata(0, 0)>>)
    /\ pc' = "loop"
    /\ UNCHANGED <<whiteColor, brightness, current_preset, is_on, is_night,
                   newColor, fade, scaleArg, scaleRes>>

\* case 28: store current color temperature, blink
Case28(command) ==
    /\ command = 28
    /\ eeprom' = PWMdata(whiteColor.coldWhite, whiteColor.warmWhite)
    /\ setPWM(whiteColor, <<PWMdata(0, 0)>>)
    /\ pc' = "loop"
    /\ UNCHANGED <<whiteColor, brightness, current_preset, is_on, is_night,
                   newColor, fade, scaleArg, scaleRes>>

KnownCommands == {69, 71, 9, 7, 25, 64, 8, 12, 24, 94, 28}

\* a switch whose default runs the power toggle
CaseNone_TogglesPower(command) ==
    /\ command \notin KnownCommands
    /\ is_on' = ~is_on
    /\ IF is_on'
       THEN fadePWM(PWMdata(0, 0), whiteColor)
       ELSE fadePWM(whiteColor, PWMdata(0, 0))
    /\ UNCHANGED <<whiteColor, brightness, current_preset, is_night, eeprom,
                   newColor, scaleArg, scaleRes>>

\* no case label matches
CaseNone(command) ==
    /\ command \notin KnownCommands
    /\ emitted' = <<>>
    /\ NoOutput
    /\ UNCHANGED <<whiteColor, brightness, current_preset, is_on, is_night, eeprom,
                   pc, newColor, fade, scaleArg, scaleRes>>

processNECCommand(command) ==
    \/ Case69(command)
    \/ Case71(command)
    \/ Case9(command)
    \/ Case7(command)
    \/ Case25(command)
    \/ Case64(command)
    \/ Case8(command)
    \/ CaseLevel(command)
    \/ Case28(command)
    \/ CaseNone(command)

----------------------------------------------------------------------------
\* setup and loop

\* frames the decoder can deliver
Frames ==
    [protocol : {"NEC"}, address : {0}, command : KnownCommands \cup {0}, flags : {0, 1}]
    \cup [protocol : {"ONKYO"}, address : {0}, command : {69}, flags : {0}]
    \cup [protocol : {"NEC"}, address : {1}, command : {69}, flags : {0}]
    \cup [protocol : {"NEC"}, address : {0}, command : {70}, flags : {0}]

\* the nested conditions of loop()
Accepted(d) ==
    /\ d.protocol # "ONKYO"
    /\ d.protocol = "NEC" /\ d.address = 0
    /\ d.flags = 0 \/ d.command \in {7, 9, 25, 64}

setup ==
    /\ pc = "setup"
    /\ whiteColor' = readColor
    /\ brightness' = getBrightness(whiteColor', whiteColor')
    /\ fadePWM(PWMdata(0, 0), whiteColor')
    /\ UNCHANGED <<current_preset, is_on, is_night, eeprom, irmp_data, newColor,
                   scaleArg, scaleRes, pre, ncmd>>

\* frames taken whenever one arrives, a fade in progress or not
loop_Preemptive ==
    /\ pc \in {"loop", "fade"}
    /\ ncmd < MaxCmds
    /\ \E d \in Frames :
          /\ irmp_data' = d
          /\ ncmd' = ncmd + 1
          /\ pre' = Snapshot
          /\ IF Accepted(d)
             THEN processNECCommand(d.command)
             ELSE /\ emitted' = <<>>
                  /\ NoOutput
                  /\ UNCHANGED <<whiteColor, brightness, current_preset, is_on,
                                 is_night, eeprom, pc, newColor, fade, scaleArg,
                                 scaleRes>>

\* one pass of loop() in which irmp_get_data delivers a frame
loop ==
    /\ pc = "loop"
    /\ ncmd < MaxCmds
    /\ \E d \in Frames :
          /\ irmp_data' = d
          /\ ncmd' = ncmd + 1
          /\ pre' = Snapshot
          /\ IF Accepted(d)
             THEN processNECCommand(d.command)
             ELSE /\ emitted' = <<>>
                  /\ NoOutput
                  /\ UNCHANGED <<whiteColor, brightness, current_preset, is_on,
                                 is_night, eeprom, pc, newColor, fade, scaleArg,
                                 scaleRes>>

----------------------------------------------------------------------------
\* The controller

\* EEPROM contents at power-up
EepromInit ==
    {PWMdata(128, 128), PWMdata(200, 100), PWMdata(252, 3), PWMdata(253, 2),
     PWMdata(3, 2)}

NoFrame == [protocol |-> "NONE", address |-> 0, command |-> 0, flags |-> 0]

NoCall == [brightness |-> 0, white |-> PWMdata(1, 1)]

\* the globals as their initializers leave them
Construction ==
    /\ whiteColor = PWMdata(128, 128)
    /\ brightness = 128
    /\ current_preset = 0
    /\ is_on = TRUE
    /\ is_night = FALSE
    /\ irmp_data = NoFrame
    /\ OCR1A = 0
    /\ OCR1B = 0
    /\ newColor = PWMdata(0, 0)
    /\ sent = PWMdata(0, 0)
    /\ emitted = <<>>
    /\ ncmd = 0

Init ==
    /\ Construction
    /\ eeprom \in EepromInit
    /\ pc = "setup"
    /\ fade = fadeEntry(PWMdata(0, 0), PWMdata(0, 0))
    /\ scaleArg = NoCall
    /\ scaleRes = <<>>
    /\ pre = Snapshot

Next == setup \/ loop \/ FadeStep \/ FadeFinish

Spec == Init /\ [][Next]_vars

\* One power-up; fadePWM is straight-line code with terminating delays, so a
\* started fade keeps taking its steps and returns.
InitLive ==
    /\ Construction
    /\ eeprom = PWMdata(200, 100)
    /\ pc = "setup"
    /\ fade = fadeEntry(PWMdata(0, 0), PWMdata(0, 0))
    /\ scaleArg = NoCall
    /\ scaleRes = <<>>
    /\ pre = Snapshot

SpecLive ==
    /\ InitLive
    /\ [][Next]_vars
    /\ WF_vars(setup)
    /\ WF_vars(FadeStep)
    /\ WF_vars(FadeFinish)

----------------------------------------------------------------------------
\* setBrightness on its own: apply it to an input, then to its own result

ScaleVals == {0, 1, 2, 3, 73, 100, 128, 200, 254, 255}

\* inputs with at least one channel > 0
ScaleInputs ==
    {PWMdata(c, w) : c \in ScaleVals, w \in ScaleVals} \ {PWMdata(0, 0)}

InitScale ==
    /\ Construction
    /\ eeprom = PWMdata(255, 255)
    /\ pc = "scale"
    /\ fade = fadeEntry(PWMdata(0, 0), PWMdata(0, 0))
    /\ scaleArg \in [brightness : 0..255, white : ScaleInputs]
    /\ scaleRes = <<>>
    /\ pre = Snapshot

ScaleApply ==
    /\ pc = "scale"
    /\ Len(scaleRes) < 2
    /\ IF scaleRes = <<>> THEN TRUE ELSE scaleRes[1].returns
    /\ LET white == IF scaleRes = <<>> THEN scaleArg.white ELSE scaleRes[1].value
       IN  \E r \in setBrightnessOutcomes(scaleArg.brightness, white) :
              scaleRes' = Append(scaleRes, r)
    /\ UNCHANGED <<whiteColor, brightness, current_preset, is_on, is_night, eeprom,
                   irmp_data, OCR1A, OCR1B, pc, newColor, fade, scaleArg,
                   sent, emitted, pre, ncmd>>

NextScale == ScaleApply

SpecScale == InitScale /\ [][NextScale]_vars

----------------------------------------------------------------------------
\* fadePWM on its own: one call for each start and stop

FadeVals == {0, 1, 2, 50, 51, 128, 255}

FadeInputs == {PWMdata(c, w) : c \in FadeVals, w \in FadeVals}

InitFade ==
    /\ Construction
    /\ eeprom = PWMdata(255, 255)
    /\ pc = "fade"
    /\ fade \in {fadeEntry(a, b) : a \in FadeInputs, b \in FadeInputs}
    /\ scaleArg = NoCall
    /\ scaleRes = <<>>
    /\ pre = Snapshot

NextFade == FadeStep \/ FadeFinish

SpecFade == InitFade /\ [][NextFade]_vars

----------------------------------------------------------------------------
\* Properties

InRange(v) == v.coldWhite \in 1..255 /\ v.warmWhite \in 1..255

\* the frame last delivered was accepted, was command c, and its handling is over
Completed(c) == pc = "loop" /\ Accepted(irmp_data) /\ irmp_data.command = c

NonIncreasing(seq) ==
    \A k \in 1..(Len(seq) - 1) :
        /\ seq[k].coldWhite >= seq[k + 1].coldWhite
        /\ seq[k].warmWhite >= seq[k + 1].warmWhite

\* C1: for every target brightness and every input with at least one channel
\* > 0, setBrightness returns normally with both channels in 1..255.
C1_ScalerPostcondition ==
    Len(scaleRes) >= 1 =>
        /\ scaleRes[1].returns
        /\ InRange(scaleRes[1].value)

\* C2: in every reachable controller state no intermediate value of
\* setBrightness exceeds 16 bits, no divisor is 0, and the fade counters
\* fit int16_t.
C2_NoOverflow ==
    /\ IF scaleRes = <<>> THEN TRUE
       ELSE IF Recessive(scaleArg.white) = 0 THEN FALSE
       ELSE IF TempOf(scaleArg.white) = 0 THEN FALSE
       ELSE MaxIntermediate(scaleArg.brightness, scaleArg.white) <= 65535
    /\ fade.currentCold + fade.stepCold \in -32768..32767
    /\ fade.currentWarm + fade.stepWarm \in -32768..32767

\* C3: for inputs with both channels in 1..255 the input's dominant channel
\* (cold on a tie) becomes the target brightness clamped to 1..255 and the
\* other channel does not exceed it.
C3_ScalerDominance ==
    (Len(scaleRes) >= 1 /\ InRange(scaleArg.white)) =>
        LET b == IF scaleArg.brightness < 1 THEN 1 ELSE scaleArg.brightness
            r == scaleRes[1]
        IN  /\ r.returns
            /\ IF scaleArg.white.coldWhite >= scaleArg.white.warmWhite
               THEN r.value.coldWhite = b /\ r.value.warmWhite <= b
               ELSE r.value.warmWhite = b /\ r.value.coldWhite <= b

C3_Witness ==
    /\ Len(scaleRes) >= 1
    /\ scaleArg = [brightness |-> 255, white |-> PWMdata(100, 200)]
    /\ scaleRes[1].value.warmWhite = 255

\* C4: setBrightness applied to its own result with the same target differs
\* from the first result by at most 1 on each channel.
C4_ScalerIdempotence ==
    (Len(scaleRes) = 2 /\ InRange(scaleArg.white)) =>
        /\ scaleRes[1].returns /\ scaleRes[2].returns
        /\ scaleRes[2].value.coldWhite - scaleRes[1].value.coldWhite \in -1..1
        /\ scaleRes[2].value.warmWhite - scaleRes[1].value.warmWhite \in -1..1

C4_Witness ==
    /\ Len(scaleRes) = 2
    /\ scaleArg = [brightness |-> 154, white |-> PWMdata(254, 255)]
    /\ scaleRes[2].returns

\* C5: the last value fadePWM(start, stop) sends is exactly stop.
C5_FadeEndpoint ==
    (pc = "loop" /\ fade.i > steps) =>
        /\ sent = fade.stop
        /\ emitted[Len(emitted)] = fade.stop

C5_Witness ==
    /\ pc = "loop"
    /\ fade.start = PWMdata(255, 128)
    /\ fade.stop = PWMdata(0, 0)
    /\ Len(emitted) = steps + 2
    /\ sent = PWMdata(0, 0)

\* C6: on each channel the values a fade emits, the final stop included, never
\* decrease when start < stop and never increase when start > stop.
C6_FadeMonotone ==
    pc \in {"fade", "loop"} =>
        \A k \in 1..(Len(emitted) - 1) :
            /\ fade.start.coldWhite < fade.stop.coldWhite
                   => emitted[k].coldWhite <= emitted[k + 1].coldWhite
            /\ fade.start.coldWhite > fade.stop.coldWhite
                   => emitted[k].coldWhite >= emitted[k + 1].coldWhite
            /\ fade.start.warmWhite < fade.stop.warmWhite
                   => emitted[k].warmWhite <= emitted[k + 1].warmWhite
            /\ fade.start.warmWhite > fade.stop.warmWhite
                   => emitted[k].warmWhite >= emitted[k + 1].warmWhite

C6_Witness ==
    /\ pc = "loop"
    /\ fade.start = PWMdata(2, 255)
    /\ fade.stop = PWMdata(51, 0)
    /\ Len(emitted) = steps + 2
    /\ emitted[steps + 1] = PWMdata(2, 5)

\* C7: whenever a command starts a fade, the start value it passes equals the
\* value most recently sent to the output.
C7_FadeStartsFromOutput ==
    (pc = "fade" /\ fade.i = 0 /\ ncmd > 0) => fade.start = sent

\* C8: toggle-power from ON clears is_on, emits a non-increasing sequence from
\* whiteColor down to {0,0} and changes nothing else; toggle-power from OFF
\* sets is_on and ends with the output equal to whiteColor.
C8_TogglePower ==
    Completed(69) =>
        /\ is_on = ~pre.is_on
        /\ whiteColor = pre.whiteColor
        /\ brightness = pre.brightness
        /\ current_preset = pre.current_preset
        /\ is_night = pre.is_night
        /\ eeprom = pre.eeprom
        /\ IF pre.is_on
           THEN /\ emitted[1] = pre.whiteColor
                /\ emitted[Len(emitted)] = PWMdata(0, 0)
                /\ sent = PWMdata(0, 0)
                /\ NonIncreasing(emitted)
           ELSE sent = whiteColor

C8_Witness ==
    /\ Completed(69)
    /\ pre.is_on
    /\ pre.whiteColor = PWMdata(200, 100)
    /\ ~is_on
    /\ sent = PWMdata(0, 0)

\* C9: cycle-preset moves the index to (index + 1) mod 5, five presses being
\* the identity, sets whiteColor and the output to the new preset scaled to
\* the unchanged brightness; from index 0 at brightness 128 the result has
\* cold = 128 as its dominant channel.
C9_CyclePreset ==
    Completed(71) =>
        /\ current_preset = (pre.current_preset + 1) % 5
        /\ current_preset \in 0..4
        /\ \A p \in 0..4 :
              nextPreset(nextPreset(nextPreset(nextPreset(nextPreset(p))))) = p
        /\ brightness = pre.brightness
        /\ whiteColor = setBrightness(pre.brightness, presets[current_preset + 1])
        /\ sent = whiteColor
        /\ fade.stop = whiteColor
        /\ (pre.current_preset = 0 /\ pre.brightness = 128) =>
              /\ whiteColor.coldWhite = 128
              /\ whiteColor.warmWhite <= 128

C9_Witness ==
    /\ Completed(71)
    /\ pre.current_preset = 0
    /\ pre.brightness = 128
    /\ current_preset = 1
    /\ whiteColor = PWMdata(128, 64)

\* C10: increase-brightness sets brightness to min(b + 4, 255) and
\* decrease-brightness to max(b - 4, 0); afterwards whiteColor is the old
\* whiteColor scaled to the new brightness, sent once to the output, no fade.
C10_BrightnessSteps ==
    /\ Completed(9) =>
          brightness = (IF pre.brightness + 4 > 255 THEN 255 ELSE pre.brightness + 4)
    /\ Completed(7) =>
          brightness = (IF pre.brightness - 4 < 0 THEN 0 ELSE pre.brightness - 4)
    /\ (Completed(9) \/ Completed(7)) =>
          /\ whiteColor = setBrightness(brightness, pre.whiteColor)
          /\ emitted = <<whiteColor>>
          /\ sent = whiteColor

C10_Witness ==
    /\ Completed(9)
    /\ pre.brightness = 252
    /\ brightness = 255
    /\ emitted = <<whiteColor>>

\* C11: shift-colder yields cold = min(c + 4, 255) and warm = max(w - 4, 1),
\* shift-warmer the mirror image; no channel becomes 0 or wraps, brightness is
\* the larger channel and the new colour is what was sent to the output.
C11_ColorShift ==
    /\ Completed(25) =>
          /\ whiteColor.coldWhite = (IF pre.whiteColor.coldWhite + 4 > 255 THEN 255
                                     ELSE pre.whiteColor.coldWhite + 4)
          /\ whiteColor.warmWhite = (IF pre.whiteColor.warmWhite - 4 < 1 THEN 1
                                     ELSE pre.whiteColor.warmWhite - 4)
    /\ Completed(64) =>
          /\ whiteColor.warmWhite = (IF pre.whiteColor.warmWhite + 4 > 255 THEN 255
                                     ELSE pre.whiteColor.warmWhite + 4)
          /\ whiteColor.coldWhite = (IF pre.whiteColor.coldWhite - 4 < 1 THEN 1
                                     ELSE pre.whiteColor.coldWhite - 4)
    /\ (Completed(25) \/ Completed(64)) =>
          /\ whiteColor.coldWhite \in 1..255
          /\ whiteColor.warmWhite \in 1..255
          /\ brightness >= whiteColor.coldWhite
          /\ brightness >= whiteColor.warmWhite
          /\ brightness \in {whiteColor.coldWhite, whiteColor.warmWhite}
          /\ sent = whiteColor
          /\ emitted = <<whiteColor>>

C11_Witness ==
    /\ Completed(25)
    /\ pre.whiteColor = PWMdata(253, 2)
    /\ whiteColor = PWMdata(255, 1)
    /\ brightness = 255

\* C12: leaving night mode clears is_night, loads the persisted colour into
\* whiteColor, sets brightness to the larger channel of that loaded colour and
\* fades from the night colour to it; startup derives brightness the same way.
C12_NightRestore ==
    /\ (Completed(8) /\ pre.is_night) =>
          /\ ~is_night
          /\ whiteColor = pre.eeprom
          /\ brightness >= pre.eeprom.coldWhite
          /\ brightness >= pre.eeprom.warmWhite
          /\ brightness \in {pre.eeprom.coldWhite, pre.eeprom.warmWhite}
          /\ fade.start = setBrightness(5, presets[5])
          /\ fade.stop = pre.eeprom
          /\ emitted[1] = fade.start
          /\ sent = pre.eeprom
    /\ (pc # "setup" /\ ncmd = 0) =>
          /\ whiteColor = eeprom
          /\ brightness >= eeprom.coldWhite
          /\ brightness >= eeprom.warmWhite
          /\ brightness \in {eeprom.coldWhite, eeprom.warmWhite}

C12_Witness ==
    /\ Completed(8)
    /\ pre.is_night
    /\ pre.whiteColor = PWMdata(255, 170)
    /\ whiteColor = PWMdata(3, 2)
    /\ brightness = 3

\* C13: after set-10/50/100-percent brightness is 25, 128, 255, and after a
\* brightness step it is the stepped value.
C13_BrightnessTracksRequest ==
    /\ Completed(12) => brightness = 25
    /\ Completed(24) => brightness = 128
    /\ Completed(94) => brightness = 255
    /\ Completed(9) =>
          brightness = (IF pre.brightness + 4 > 255 THEN 255 ELSE pre.brightness + 4)
    /\ Completed(7) =>
          brightness = (IF pre.brightness - 4 < 0 THEN 0 ELSE pre.brightness - 4)

\* the frame last delivered was accepted and was command c (handled or in its fade)
Handling(c) == ncmd > 0 /\ Accepted(irmp_data) /\ irmp_data.command = c

GlobalsAsBefore ==
    /\ whiteColor = pre.whiteColor
    /\ brightness = pre.brightness
    /\ current_preset = pre.current_preset
    /\ is_on = pre.is_on
    /\ is_night = pre.is_night

\* C14: store-color makes the persisted colour equal to whiteColor and changes
\* no global; no other command, no rejected frame and no fade step changes the
\* persisted colour.
C14_PersistenceFrame ==
    /\ Completed(28) => (eeprom = pre.whiteColor /\ GlobalsAsBefore)
    /\ ~Handling(28) => eeprom = pre.eeprom

C14_Witness ==
    /\ Completed(28)
    /\ pre.eeprom = PWMdata(3, 2)
    /\ pre.whiteColor = PWMdata(255, 170)
    /\ eeprom = PWMdata(255, 170)

\* C15: store-color sends {0,0} and then the value that was on the output
\* before the command, so the output after it equals the output before it.
C15_BlinkRestoresOutput ==
    Completed(28) =>
        /\ Len(emitted) = 2
        /\ emitted[1] = PWMdata(0, 0)
        /\ emitted[2] = pre.sent
        /\ sent = pre.sent

\* C16: an accepted command code outside the eleven handled ones changes no
\* global and not the persisted colour, and sends nothing to the output.
C16_UnknownCommandNoOp ==
    (Handling(irmp_data.command)
        /\ irmp_data.command \notin {69, 71, 9, 7, 25, 64, 8, 12, 24, 94, 28}) =>
        /\ GlobalsAsBefore
        /\ eeprom = pre.eeprom
        /\ pc = "loop"
        /\ emitted = <<>>
        /\ sent = pre.sent
        /\ OCR1A = OCRof(sent.coldWhite)
        /\ OCR1B = OCRof(sent.warmWhite)

C16_Witness ==
    /\ Handling(70)
    /\ ncmd = 2
    /\ ~is_on
    /\ sent = PWMdata(0, 0)
    /\ emitted = <<>>

Globals == <<whiteColor, brightness, current_preset, is_on, is_night>>

\* C17: a started fade always ends, having sent its 52 values with stop last;
\* while it runs no frame is read; the globals change only in the step that
\* takes a frame or in the return of that command's fade (or in setup).
C17_RunToCompletion ==
    /\ (pc = "fade") ~> (pc = "loop" /\ Len(emitted) = steps + 2 /\ sent = fade.stop)
    /\ [][pc = "fade" => (irmp_data' = irmp_data /\ ncmd' = ncmd /\ pre' = pre
                          /\ fade'.start = fade.start /\ fade'.stop = fade.stop)]_vars
    /\ [][Globals' # Globals =>
             \/ pc = "setup"
             \/ pc = "loop" /\ ncmd' = ncmd + 1
             \/ pc = "fade" /\ pc' = "loop" /\ ncmd' = ncmd]_vars

C17_Witness ==
    /\ pc = "loop"
    /\ ncmd = 2
    /\ Handling(94)
    /\ Len(emitted) = steps + 2
    /\ sent = fade.stop
    /\ whiteColor = fade.stop
    /\ whiteColor # pre.whiteColor

\* value of step i of a fade from a to b on one channel, before the clamp
StepValue(a, b, i) ==
    LET d == b - a
        q == IF d >= 0 THEN d \div 50 ELSE -((-d) \div 50)
    IN  a + i * q

Clamped(x) == IF x < 1 THEN 1 ELSE IF x > 255 THEN 255 ELSE x

\* C18: a fade sends 52 values: for i = 0..50 the clamped start + i * step
\* (step truncated toward zero, never past stop), each channel in 1..255, and
\* then the unclamped stop.
C18_FadeSequence ==
    pc \in {"fade", "loop"} =>
        /\ Len(emitted) <= 52
        /\ Len(emitted) = (IF pc = "loop" THEN 52 ELSE fade.i)
        /\ \A k \in 1..Len(emitted) :
              IF k <= 51
              THEN /\ emitted[k].coldWhite =
                         Clamped(StepValue(fade.start.coldWhite, fade.stop.coldWhite, k - 1))
                   /\ emitted[k].warmWhite =
                         Clamped(StepValue(fade.start.warmWhite, fade.stop.warmWhite, k - 1))
                   /\ emitted[k].coldWhite \in 1..255
                   /\ emitted[k].warmWhite \in 1..255
                   /\ fade.start.coldWhite <= fade.stop.coldWhite =>
                         StepValue(fade.start.coldWhite, fade.stop.coldWhite, k - 1)
                             <= fade.stop.coldWhite
                   /\ fade.start.coldWhite >= fade.stop.coldWhite =>
                         StepValue(fade.start.coldWhite, fade.stop.coldWhite, k - 1)
                             >= fade.stop.coldWhite
                   /\ fade.start.warmWhite <= fade.stop.warmWhite =>
                         StepValue(fade.start.warmWhite, fade.stop.warmWhite, k - 1)
                             <= fade.stop.warmWhite
                   /\ fade.start.warmWhite >= fade.stop.warmWhite =>
                         StepValue(fade.start.warmWhite, fade.stop.warmWhite, k - 1)
                             >= fade.stop.warmWhite
              ELSE emitted[k] = fade.stop

C18_Witness ==
    /\ pc = "loop"
    /\ fade.start = PWMdata(255, 0)
    /\ fade.stop = PWMdata(0, 128)
    /\ Len(emitted) = 52
    /\ emitted[1] = PWMdata(255, 1)
    /\ emitted[51] = PWMdata(5, 100)
    /\ emitted[52] = PWMdata(0, 128)

\* C19 as stated: every value a fade with equal endpoints emits equals that
\* endpoint, the fully-off value {0,0} included.
C19_EqualEndpoints ==
    (pc \in {"fade", "loop"} /\ fade.start = fade.stop) =>
        \A k \in 1..Len(emitted) : emitted[k] = fade.stop

\* C19 amended: with equal endpoints v, a channel of v in 1..255 is emitted
\* unchanged in all 52 values; a channel of v that is 0 is emitted as 1 in the
\* 51 step values and as 0 in the final one, and the compare register of that
\* channel is 0 throughout.
C19_EqualEndpointsAmended ==
    (pc \in {"fade", "loop"} /\ fade.start = fade.stop) =>
        /\ \A k \in 1..Len(emitted) :
              /\ emitted[k].coldWhite =
                    (IF fade.stop.coldWhite = 0 /\ k <= 51 THEN 1 ELSE fade.stop.coldWhite)
              /\ emitted[k].warmWhite =
                    (IF fade.stop.warmWhite = 0 /\ k <= 51 THEN 1 ELSE fade.stop.warmWhite)
        /\ Len(emitted) > 0 =>
              /\ OCR1A = (IF fade.stop.coldWhite <= 1 THEN 0 ELSE fade.stop.coldWhite)
              /\ OCR1B = (IF fade.stop.warmWhite <= 1 THEN 0 ELSE fade.stop.warmWhite)

C19_Witness ==
    /\ pc = "loop"
    /\ fade.start = PWMdata(0, 128)
    /\ fade.stop = PWMdata(0, 128)
    /\ Len(emitted) = 52
    /\ emitted[1] = PWMdata(1, 128)
    /\ emitted[52] = PWMdata(0, 128)

\* C20: started from a persisted colour with both channels in 1..255,
\* whiteColor and the persisted colour keep both channels in 1..255, and every
\* setBrightness call the commands make divides by non-zero values and returns.
C20_ChannelsStayPositive ==
    /\ whiteColor.coldWhite \in 1..255
    /\ whiteColor.warmWhite \in 1..255
    /\ eeprom.coldWhite \in 1..255
    /\ eeprom.warmWhite \in 1..255
    /\ pc # "trapped"
    /\ IF scaleRes = <<>> THEN TRUE
       ELSE /\ scaleArg.white.coldWhite >= 1
            /\ scaleArg.white.warmWhite >= 1
            /\ scaleRes[1].returns
            /\ scaleRes[1].value.coldWhite \in 1..255
            /\ scaleRes[1].value.warmWhite \in 1..255

C20_Witness ==
    /\ Completed(7)
    /\ pre.whiteColor = PWMdata(255, 1)
    /\ scaleArg = [brightness |-> 251, white |-> PWMdata(255, 1)]
    /\ whiteColor = PWMdata(251, 1)

\* C21: between commands (after startup and after each completed command),
\* when the lamp is on and not in night mode the value last sent to the output
\* is whiteColor.
C21_OutputIsColorWhenOn ==
    (pc = "loop" /\ is_on /\ ~is_night) =>
        /\ sent = whiteColor
        /\ OCR1A = (IF whiteColor.coldWhite = 1 THEN 0 ELSE whiteColor.coldWhite)
        /\ OCR1B = (IF whiteColor.warmWhite = 1 THEN 0 ELSE whiteColor.warmWhite)

C21_Witness ==
    /\ Completed(8)
    /\ ncmd = 3
    /\ is_on
    /\ ~is_night
    /\ pre.is_night
    /\ pre.sent # sent
    /\ pre.whiteColor # whiteColor
    /\ sent = whiteColor

\* C22: between commands, while is_on is false the value last sent to the
\* output is {0,0}.
C22_OffStaysOff ==
    (pc = "loop" /\ ~is_on) => sent = PWMdata(0, 0)

====
